---- MODULE Spec2Model ----
(***************************************************************************)
(* Model of the crate your_game_of_life: the Cell value type               *)
(* (src/src/cell.rs) and the grid engine Life<HEIGHT, WIDTH>               *)
(* (src/src/lib.rs): construction, the indexed accessors, the neighbour    *)
(* computation get_surrounding, and the generational update play /         *)
(* play_for.                                                               *)
(*                                                                         *)
(* The cell storage is  cells: [[Cell; HEIGHT]; WIDTH] : the OUTER index   *)
(* ranges over 0..WIDTH-1 and the INNER index over 0..HEIGHT-1.  The model *)
(* keeps exactly that shape: cells[i][j] with i < WIDTH and j < HEIGHT.    *)
(***************************************************************************)
EXTENDS Integers, Sequences, FiniteSets, TLC

(***************************************************************************)
(* Bounds of the model.                                                    *)
(***************************************************************************)
\* Largest HEIGHT and largest WIDTH of an instantiation Life<HEIGHT, WIDTH>.
MaxSide == 3
\* Largest number WIDTH * HEIGHT of cells of an instantiation, Life<3, 3>
\* apart.
MaxArea == 6
\* Largest number of calls the caller makes on one Life value.
MaxCalls == 2
\* Largest generation count n handed to play_for.
MaxN == 2
\* Largest number of rows, and of entries of a row, of a source of from_iter.
MaxSrc == 3
\* Largest value of a channel of a Cell, 255 apart.
MaxChannel == 3

(***************************************************************************)
(* Cell (src/src/cell.rs).                                                 *)
(***************************************************************************)
Cell(r, g, b) == [r |-> r, g |-> g, b |-> b]

\* #[derive(Default)]: every channel 0.
CellDefault == Cell(0, 0, 0)

alive == Cell(255, 255, 255)

dead == Cell(0, 0, 0)

red == Cell(255, 0, 0)

black == Cell(0, 0, 0)

\* Mutant of is_alive: only the red channel is tested.
is_alive_red(c) == c.r # 0

is_alive(c) == c.r # 0 \/ c.g # 0 \/ c.b # 0

\* The cells the caller writes into the grid and into out_of_bounds in this
\* model, and the values a read outside the array yields in it.  The rules add
\* Cell::alive() to them.
Palette == {dead, red}

\* self.into_iter().filter(|cell| cell.is_alive()).count(), from item i on.
RECURSIVE CountAlive(_, _)
CountAlive(others, i) ==
    IF i > Len(others)
    THEN 0
    ELSE (IF is_alive(others[i]) THEN 1 ELSE 0) + CountAlive(others, i + 1)

\* Mutant of CellNeighborsAlive: the filter is negated.
CellNeighborsDead(others) == Cardinality({i \in 1..8 : ~is_alive(others[i])})

\* Mutant of CellNeighborsAlive: the first cell of the set is not counted.
CellNeighborsAliveRest(others) == CountAlive(others, 2) % 256

\* CellNeighbors::alive : the number of alive cells among the 8, as u8.
CellNeighborsAlive(others) == CountAlive(others, 1) % 256

(***************************************************************************)
(* Life<HEIGHT, WIDTH> : the state.                                        *)
(***************************************************************************)
VARIABLES
    HEIGHT,         \* const generic parameter, fixed for the life of the value
    WIDTH,          \* const generic parameter, fixed for the life of the value
    cells,          \* self.cells : [[Cell; HEIGHT]; WIDTH]
    out_of_bounds,  \* self.out_of_bounds
    pc,             \* "idle" | "loop" (play_for's for loop) | "play" (play's loops)
    proto,          \* play's local buffer  let mut proto = self.cells
    pos,            \* play's position in its two nested loops: x * HEIGHT + y
    rule,           \* the closure f handed to play / play_for, with its captured state
    call,           \* the call in progress or just ended: op, n, generations done,
                    \* history: cells and f at the call, f at the generation's start
    handed,         \* the arguments and the result of the latest invocation of f
    returned,       \* history: <<x, y, result>> of each invocation of f in this play
    pre,            \* history: self.cells when the current play was entered
    ret,            \* outcome of the latest call: op, arguments, fault, value
    calls,          \* number of calls made so far
    source,         \* the 2D container handed to from_iter
    outside,        \* history: an unchecked access of this call left the array
    done            \* the positions evaluated so far, where play's loops are
                    \* run in another order than the code's

vars == <<HEIGHT, WIDTH, cells, out_of_bounds, pc, proto, pos, rule, call,
          handed, returned, pre, ret, calls, source, outside, done>>

\* The instantiations <<HEIGHT, WIDTH>> of the model: the small ones, and
\* Life<3, 3>, the smallest that has a cell with all its 8 neighbours.
Dims == {d \in (1..MaxSide) \X (1..MaxSide) : d[1] * d[2] <= MaxArea}
            \cup {<<3, 3>>}

\* Arguments x, y of the accessors: every index of the instantiation, along
\* either side, and one beyond.
Coord == 0..(IF HEIGHT > WIDTH THEN HEIGHT ELSE WIDTH)

Outer == 0..(WIDTH - 1)

Inner == 0..(HEIGHT - 1)

\* [[Cell::default(); HEIGHT]; WIDTH]
DefaultCells(h, w) == [i \in 0..(w - 1) |-> [j \in 0..(h - 1) |-> CellDefault]]

NoGrid == <<>>

NoRule == [kind |-> "none", n |-> 0]

NoCall == [op |-> "none", n |-> 0, gen |-> 0, cells0 |-> NoGrid,
           rule0 |-> NoRule, rule1 |-> NoRule]

NoHanded == [valid |-> FALSE, x |-> 0, y |-> 0, cell |-> CellDefault,
             others |-> <<>>, result |-> CellDefault]

NoRet == [op |-> "none", x |-> 0, y |-> 0, fault |-> FALSE, val |-> CellDefault]

(***************************************************************************)
(* The accessors get / get_ref / get_mut / set : self.cells[y][x].         *)
(* Indexing is checked: the call panics unless y indexes the outer array   *)
(* and x the inner one.                                                    *)
(***************************************************************************)
IndexOk(x, y) == y \in Outer /\ x \in Inner

get(c, x, y) == c[y][x]

set(c, x, y, cell) == [c EXCEPT ![y][x] = cell]

(***************************************************************************)
(* get_surrounding.                                                        *)
(***************************************************************************)
\* The macro insert!: *self.cells.get_unchecked(i).get_unchecked(j).  The read
\* is unchecked: outside the array it is undefined behaviour, and yields ub,
\* a value the caller of this operator chooses without constraint.
InRange(i, j) == i \in Outer /\ j \in Inner

insert(c, i, j, ub) == IF InRange(i, j) THEN c[i][j] ELSE ub

\* The index pair each insert! of get_surrounding(x, y) reads, in the order of
\* the returned array [tl, t, tr, l, r, bl, b, br].
SlotIndex(x, y) ==
    << <<x - 1, y - 1>>, <<x, y - 1>>, <<x + 1, y - 1>>,
       <<x - 1, y>>,                   <<x + 1, y>>,
       <<x - 1, y + 1>>, <<x, y + 1>>, <<x + 1, y + 1>> >>

\* The conditions under which each insert! is executed, in the same order.
SlotRead(x, y) ==
    << x # 0 /\ y # 0,
       y # 0,
       y # 0 /\ x # WIDTH - 1,
       x # 0,
       x # WIDTH - 1,
       x # 0 /\ y # HEIGHT - 1,
       y # WIDTH - 1,
       x # WIDTH - 1 /\ y # HEIGHT - 1 >>

\* Every slot starts as Cell::default() and is overwritten by its insert!.
get_surrounding(c, x, y, ub) ==
    [i \in 1..8 |->
        IF SlotRead(x, y)[i]
        THEN insert(c, SlotIndex(x, y)[i][1], SlotIndex(x, y)[i][2], ub)
        ELSE CellDefault]

\* Whether get_surrounding(x, y) performs a read outside the array.
ReadsOutside(x, y) ==
    \E i \in 1..8 : SlotRead(x, y)[i]
                    /\ ~InRange(SlotIndex(x, y)[i][1], SlotIndex(x, y)[i][2])

\* The values an out-of-range read can yield.
UbValues(x, y) == IF ReadsOutside(x, y) THEN Palette ELSE {CellDefault}

(***************************************************************************)
(* The closures handed to play / play_for.  A closure is a record of its   *)
(* kind and of the state n it captured; applying it yields its result and  *)
(* the closure with its new captured state.                                *)
(***************************************************************************)
\* |this, _, _, _| this
RuleSame(this, others, x, y) == this

\* |_, _, _, _| Cell::alive()
RuleAlive(this, others, x, y) == alive

\* The rule of the crate's example: Conway's rule on the alive count.
RuleLife(this, others, x, y) ==
    LET n == CellNeighborsAlive(others)
    IN  IF n < 2 THEN dead
        ELSE IF n = 2 THEN this
        ELSE IF n = 3 THEN alive
        ELSE dead

\* A stateful FnMut: it counts its invocations (n, kept modulo 2) and paints
\* red on every odd one, leaving the cell as it is on every even one.
RuleCount(n, this, others, x, y) == IF n = 0 THEN red ELSE this

Rules == {"same", "alive", "life", "count"}

NewRule(kind) == [kind |-> kind, n |-> 0]

RuleApply(f, this, others, x, y) ==
    [result |-> CASE f.kind = "same"  -> RuleSame(this, others, x, y)
                  [] f.kind = "alive" -> RuleAlive(this, others, x, y)
                  [] f.kind = "life"  -> RuleLife(this, others, x, y)
                  [] f.kind = "count" -> RuleCount(f.n, this, others, x, y),
     rule   |-> IF f.kind = "count" THEN [f EXCEPT !.n = 1 - f.n] ELSE f]

(***************************************************************************)
(* Init: Life::default() of some instantiation Life<HEIGHT, WIDTH>.        *)
(***************************************************************************)
Idle ==
    /\ pc = "idle"
    /\ proto = NoGrid
    /\ pos = 0
    /\ rule = NoRule
    /\ call = NoCall
    /\ handed = NoHanded
    /\ returned = <<>>
    /\ pre = NoGrid
    /\ ret = NoRet
    /\ calls = 0
    /\ outside = FALSE
    /\ done = {}

Init ==
    /\ \E d \in Dims : HEIGHT = d[1] /\ WIDTH = d[2]
    /\ cells = DefaultCells(HEIGHT, WIDTH)
    /\ out_of_bounds = CellDefault
    /\ source = <<>>
    /\ Idle

(***************************************************************************)
(* The accessors as calls.                                                 *)
(***************************************************************************)
CanCall == pc = "idle" /\ calls < MaxCalls

Forget ==
    /\ rule' = NoRule
    /\ handed' = NoHanded
    /\ returned' = <<>>
    /\ pre' = NoGrid
    /\ call' = NoCall
    /\ calls' = calls + 1
    /\ outside' = FALSE
    /\ UNCHANGED source

Outcome(op, x, y, c) ==
    IF IndexOk(x, y)
    THEN [op |-> op, x |-> x, y |-> y, fault |-> FALSE, val |-> c]
    ELSE [op |-> op, x |-> x, y |-> y, fault |-> TRUE, val |-> CellDefault]

Get(x, y) ==
    /\ CanCall
    /\ ret' = Outcome("get", x, y, IF IndexOk(x, y) THEN get(cells, x, y) ELSE CellDefault)
    /\ Forget
    /\ UNCHANGED <<HEIGHT, WIDTH, done, cells, out_of_bounds, pc, proto, pos>>

GetRef(x, y) ==
    /\ CanCall
    /\ ret' = Outcome("get_ref", x, y, IF IndexOk(x, y) THEN get(cells, x, y) ELSE CellDefault)
    /\ Forget
    /\ UNCHANGED <<HEIGHT, WIDTH, done, cells, out_of_bounds, pc, proto, pos>>

GetMut(x, y) ==
    /\ CanCall
    /\ ret' = Outcome("get_mut", x, y, IF IndexOk(x, y) THEN get(cells, x, y) ELSE CellDefault)
    /\ Forget
    /\ UNCHANGED <<HEIGHT, WIDTH, done, cells, out_of_bounds, pc, proto, pos>>

Set(x, y, c) ==
    /\ CanCall
    /\ cells' = IF IndexOk(x, y) THEN set(cells, x, y, c) ELSE cells
    /\ ret' = Outcome("set", x, y, c)
    /\ Forget
    /\ UNCHANGED <<HEIGHT, WIDTH, done, out_of_bounds, pc, proto, pos>>

\* life.out_of_bounds = c : the field is public.
SetOutOfBounds(c) ==
    /\ CanCall
    /\ out_of_bounds' = c
    /\ ret' = [NoRet EXCEPT !.op = "out_of_bounds", !.val = c]
    /\ Forget
    /\ UNCHANGED <<HEIGHT, WIDTH, done, cells, pc, proto, pos>>

(***************************************************************************)
(* play and play_for.  The closure f is code of the caller: each of its    *)
(* invocations is a step of its own.                                       *)
(***************************************************************************)
\* Mutant of Area: the loops leave the last position out.
AreaShort == WIDTH * HEIGHT - 1

\* The number of turns of play's two nested loops.
Area == WIDTH * HEIGHT

\* for (x, column) in self.cells.into_iter().enumerate()
\*     for (y, cell) in column.into_iter().enumerate()
PosX(p) == p \div HEIGHT

PosY(p) == p % HEIGHT

\* let mut proto = self.cells, and the two loops entered.
EnterPlay ==
    /\ pc' = "play"
    /\ proto' = cells
    /\ pos' = 0
    /\ pre' = cells
    /\ handed' = NoHanded
    /\ returned' = <<>>
    /\ UNCHANGED source

Play(kind) ==
    /\ CanCall
    /\ rule' = NewRule(kind)
    /\ call' = [op |-> "play", n |-> 1, gen |-> 0, cells0 |-> cells,
                rule0 |-> rule', rule1 |-> rule']
    /\ EnterPlay
    /\ ret' = NoRet
    /\ calls' = calls + 1
    /\ outside' = FALSE
    /\ UNCHANGED <<HEIGHT, WIDTH, done, cells, out_of_bounds>>

\* Mutant of PlayStore: the update is done in place, in self.cells too.
PlayStoreInPlace(c, p, x, y, v) ==
    [cells |-> [c EXCEPT ![x][y] = v], proto |-> [p EXCEPT ![x][y] = v]]

\* *proto.get_unchecked_mut(x).get_unchecked_mut(y) = f(...): the result goes
\* to the buffer, self.cells is left alone.
PlayStore(c, p, x, y, v) == [cells |-> c, proto |-> [p EXCEPT ![x][y] = v]]

\* Mutant of PlaySource: the loops read the buffer being written.
PlaySourceProto(c, p) == p

\* The array the two loops and get_surrounding read: self.cells, by value
\* (Life is Copy), not the buffer proto.
PlaySource(c, p) == c

\* Mutant of PlayCell: every invocation is handed the first cell.
PlayCellFirst(c, x, y) == c[0][0]

\* The cell the two enumerations yield at (x, y): column x of the array, its
\* entry y.
PlayCell(c, x, y) == c[x][y]

\* One turn of the inner loop: f(cell, self.get_surrounding(x, y), x, y).
Invoke(ub) ==
    /\ pc = "play"
    /\ pos < Area
    /\ LET x      == PosX(pos)
           y      == PosY(pos)
           cell   == PlayCell(PlaySource(cells, proto), x, y)
           others == get_surrounding(PlaySource(cells, proto), x, y, ub)
           out    == RuleApply(rule, cell, others, x, y)
           st     == PlayStore(cells, proto, x, y, out.result)
       IN  /\ cells' = st.cells
           /\ proto' = st.proto
           /\ rule' = out.rule
           /\ handed' = [valid |-> TRUE, x |-> x, y |-> y, cell |-> cell,
                         others |-> others, result |-> out.result]
           /\ returned' = Append(returned, <<x, y, out.result>>)
           /\ outside' = (outside \/ ReadsOutside(x, y))
    /\ pos' = pos + 1
    /\ UNCHANGED <<HEIGHT, WIDTH, done, out_of_bounds, pc, call, pre, ret, calls, source>>

\* f panics: the call is unwound, proto is dropped with play's frame.
RuleFault ==
    /\ pc = "play"
    /\ pos < Area
    /\ pc' = "idle"
    /\ proto' = NoGrid
    /\ pos' = 0
    /\ handed' = NoHanded
    /\ returned' = <<>>
    /\ ret' = [NoRet EXCEPT !.op = call.op, !.fault = TRUE]
    /\ UNCHANGED <<HEIGHT, WIDTH, done, cells, out_of_bounds, rule, call, pre, calls,
                   source, outside>>

\* self.cells = proto, and play returns.
Publish ==
    /\ pc = "play"
    /\ pos = Area
    /\ cells' = proto
    /\ proto' = NoGrid
    /\ pos' = 0
    /\ call' = [call EXCEPT !.gen = call.gen + 1]
    /\ pc' = IF call.op = "play_for" THEN "loop" ELSE "idle"
    /\ ret' = IF call.op = "play_for" THEN ret ELSE [NoRet EXCEPT !.op = "play"]
    /\ handed' = NoHanded
    /\ UNCHANGED <<HEIGHT, WIDTH, done, out_of_bounds, rule, returned, pre, calls,
                   source, outside>>

\* play_for(n, f) is called: its loop  for _ in 0..n  is entered.
PlayFor(n, kind) ==
    /\ CanCall
    /\ rule' = NewRule(kind)
    /\ call' = [op |-> "play_for", n |-> n, gen |-> 0, cells0 |-> cells,
                rule0 |-> rule', rule1 |-> rule']
    /\ pc' = "loop"
    /\ handed' = NoHanded
    /\ returned' = <<>>
    /\ pre' = NoGrid
    /\ ret' = NoRet
    /\ calls' = calls + 1
    /\ outside' = FALSE
    /\ UNCHANGED <<HEIGHT, WIDTH, done, cells, out_of_bounds, proto, pos, source>>

\* Mutant of PlayForTurns: the loop runs over 0..=n.
PlayForTurnsInclusive(n) == n + 1

\* The number of times play_for(n, f) calls play.
PlayForTurns(n) == n

\* One test of the loop of play_for: self.play(&mut f), or the return.
PlayForNext ==
    /\ pc = "loop"
    /\ IF call.gen < PlayForTurns(call.n)
       THEN /\ EnterPlay
            /\ call' = [call EXCEPT !.rule1 = rule]
            /\ UNCHANGED ret
       ELSE /\ pc' = "idle"
            /\ ret' = [NoRet EXCEPT !.op = "play_for"]
            /\ UNCHANGED <<proto, pos, pre, handed, returned, source, call>>
    /\ UNCHANGED <<HEIGHT, WIDTH, done, cells, out_of_bounds, rule, calls, outside>>

\* play as one call: the outcomes [cells, rule] of play(f) on the cells c, one
\* for each choice of the values its reads outside the array yield.  S is the
\* set of the states [cells, proto, rule] the loops can be in before turn k.
RECURSIVE PlayFrom(_, _)
PlayFrom(S, k) ==
    IF k = Area
    THEN {[cells |-> s.proto, rule |-> s.rule] : s \in S}
    ELSE LET x == PosX(k)
             y == PosY(k)
         IN  PlayFrom({
               LET s   == su[1]
                   src == PlaySource(s.cells, s.proto)
                   out == RuleApply(s.rule, PlayCell(src, x, y),
                                    get_surrounding(src, x, y, su[2]), x, y)
                   st  == PlayStore(s.cells, s.proto, x, y, out.result)
               IN  [cells |-> st.cells, proto |-> st.proto, rule |-> out.rule]
               : su \in S \X UbValues(x, y) }, k + 1)

play(c, f) == PlayFrom({[cells |-> c, proto |-> c, rule |-> f]}, 0)

Next ==
    \/ \E x \in Coord, y \in Coord : Get(x, y)
    \/ \E x \in Coord, y \in Coord : GetRef(x, y)
    \/ \E x \in Coord, y \in Coord : GetMut(x, y)
    \/ \E x \in Coord, y \in Coord, c \in Palette : Set(x, y, c)
    \/ \E c \in Palette : SetOutOfBounds(c)
    \/ \E kind \in Rules : Play(kind)
    \/ \E n \in 0..MaxN, kind \in Rules : PlayFor(n, kind)
    \/ PlayForNext
    \/ \E ub \in UbValues(PosX(pos), PosY(pos)) : Invoke(ub)
    \/ RuleFault
    \/ Publish

Spec == Init /\ [][Next]_vars

(***************************************************************************)
(* Construction: FromIterator for Life (Life::from collects through it).   *)
(***************************************************************************)
\* An entry of a source is a value of a type that is Into<Cell>, tagged with
\* that type: From<bool>, From<u8>, From<[u8; 3]> / From<(u8, u8, u8)>, and
\* Cell itself.
Into(e) ==
    CASE e.t = "bool" -> (IF e.v THEN alive ELSE dead)
      [] e.t = "u8"   -> Cell(e.v, e.v, e.v)
      [] e.t = "rgb"  -> Cell(e.v[1], e.v[2], e.v[3])
      [] e.t = "cell" -> e.v

\* Mutant of Take: nothing is cut off.
TakeAll(s, n) == s

\* Iterator::take(n): the first n items, or all of them when there are fewer.
Take(s, n) == SubSeq(s, 1, IF Len(s) < n THEN Len(s) ELSE n)

\* *cells.get_unchecked_mut(i).get_unchecked_mut(j) = v : an unchecked write,
\* undefined behaviour outside the array (recorded in outside).
StoreUnchecked(st, i, j, v) ==
    IF InRange(i, j)
    THEN [st EXCEPT !.cells[i][j] = v]
    ELSE [st EXCEPT !.outside = TRUE]

\* for (x, cell) in row.into_iter().enumerate().take(HEIGHT)
RECURSIVE FromRow(_, _, _, _)
FromRow(st, y, row, x) ==
    IF x >= Len(row) THEN st
    ELSE FromRow(StoreUnchecked(st, y, x, Into(row[x + 1])), y, row, x + 1)

\* for (y, row) in iter.into_iter().enumerate().take(WIDTH)
RECURSIVE FromRows(_, _, _)
FromRows(st, rows, y) ==
    IF y >= Len(rows) THEN st
    ELSE FromRows(FromRow(st, y, Take(rows[y + 1], HEIGHT), 0), rows, y + 1)

from_iter(src) ==
    FromRows([cells |-> DefaultCells(HEIGHT, WIDTH), outside |-> FALSE],
             Take(src, WIDTH), 0)

\* The sources of the model: every shape of at most MaxSrc rows of at most
\* MaxSrc entries (ragged ones included), filled with entries of one type whose
\* value tells the place (row r, index c) it has in the source.
SourceKinds == {"bool", "u8", "rgb"}

SourceEntry(kind, r, c) ==
    CASE kind = "bool" -> [t |-> "bool", v |-> ((r + c) % 2 = 0)]
      [] kind = "u8"   -> [t |-> "u8", v |-> 1 + r * MaxSrc + c]
      [] kind = "rgb"  -> [t |-> "rgb", v |-> <<r + 1, c + 1, 0>>]

SourceShapes == UNION {[1..n -> 0..MaxSrc] : n \in 0..MaxSrc}

SourceOf(shape, kind) ==
    [r \in 1..Len(shape) |-> [c \in 1..shape[r] |-> SourceEntry(kind, r - 1, c - 1)]]

\* Before the construction there is no Life value yet.
InitFrom ==
    /\ \E d \in Dims : HEIGHT = d[1] /\ WIDTH = d[2]
    /\ \E shape \in SourceShapes, kind \in SourceKinds : source = SourceOf(shape, kind)
    /\ cells = NoGrid
    /\ out_of_bounds = NoGrid
    /\ pc = "new"
    /\ proto = NoGrid
    /\ pos = 0
    /\ rule = NoRule
    /\ call = NoCall
    /\ handed = NoHanded
    /\ returned = <<>>
    /\ pre = NoGrid
    /\ ret = NoRet
    /\ calls = 0
    /\ outside = FALSE
    /\ done = {}

\* Life::from_iter(source).
FromIter ==
    /\ pc = "new"
    /\ LET st == from_iter(source)
       IN  /\ cells' = st.cells
           /\ outside' = st.outside
    /\ out_of_bounds' = CellDefault
    /\ pc' = "idle"
    /\ ret' = [NoRet EXCEPT !.op = "from_iter"]
    /\ UNCHANGED <<HEIGHT, WIDTH, done, proto, pos, rule, call, handed, returned, pre,
                   calls, source>>

NextFrom == FromIter

SpecFrom == InitFrom /\ [][NextFrom]_vars

(***************************************************************************)
(* The crate's example: a Life built from rows of ALIVE and DEAD cells and *)
(* run under Conway's rule.                                                *)
(***************************************************************************)
\* The sources of HEIGHT-long rows, WIDTH of them, of ALIVE and DEAD cells.
LifeSources ==
    {[r \in 1..WIDTH |-> [c \in 1..HEIGHT |-> [t |-> "cell", v |-> g[r][c]]]] :
        g \in [1..WIDTH -> [1..HEIGHT -> {alive, dead}]]}

InitLife ==
    /\ \E d \in Dims : HEIGHT = d[1] /\ WIDTH = d[2]
    /\ \E src \in LifeSources : cells = from_iter(src).cells
    /\ source = <<>>
    /\ out_of_bounds = CellDefault
    /\ Idle

\* The example makes one call on the Life it built.
NextLife ==
    \/ calls = 0 /\ Play("life")
    \/ calls = 0 /\ \E n \in 0..MaxN : PlayFor(n, "life")
    \/ PlayForNext
    \/ \E ub \in UbValues(PosX(pos), PosY(pos)) : Invoke(ub)
    \/ Publish

SpecLife == InitLife /\ [][NextLife]_vars

(***************************************************************************)
(* Properties.                                                             *)
(***************************************************************************)
\* The coordinates the specification calls valid: 0 <= x < WIDTH, 0 <= y < HEIGHT.
ValidCoord(x, y) == x \in 0..(WIDTH - 1) /\ y \in 0..(HEIGHT - 1)

\* f has been invoked in the play in progress; handed holds that invocation.
Invoked == pc = "play" /\ handed.valid

\* A play has just published its buffer: returned holds all its invocations.
Published == pc # "play" /\ Len(returned) = Area

\* C1: Synchronous update.  While a play is in progress self.cells is the
\* generation that existed when the play was entered, and what f is handed
\* comes from that generation whatever f already returned: the current cell is
\* that generation's cell at (x, y), every neighbour slot read from the array
\* is that generation's cell at the index read, and a slot that is not read
\* holds the fixed Cell::default().  (A read outside the array, which C14 is
\* about, is undefined and constrains nothing.)
C1_SynchronousUpdate ==
    pc = "play" =>
        /\ cells = pre
        /\ handed.valid =>
            /\ handed.cell = pre[handed.x][handed.y]
            /\ \A i \in 1..8 :
                 LET ix == SlotIndex(handed.x, handed.y)[i]
                 IN  IF ~SlotRead(handed.x, handed.y)[i]
                     THEN handed.others[i] = CellDefault
                     ELSE InRange(ix[1], ix[2]) => handed.others[i] = pre[ix[1]][ix[2]]

\* C1 witness: f is handed a neighbour whose slot of the buffer already holds
\* a different, newly computed value.
C1_Witness ==
    /\ Invoked
    /\ \E i \in 1..8 :
         LET ix == SlotIndex(handed.x, handed.y)[i]
         IN  /\ SlotRead(handed.x, handed.y)[i]
             /\ InRange(ix[1], ix[2])
             /\ proto[ix[1]][ix[2]] # pre[ix[1]][ix[2]]
             /\ handed.others[i] = pre[ix[1]][ix[2]]

\* C2: Boundary substitution.  For every invocation of f at (x, y) and each of
\* the 8 offsets, the slot holds out_of_bounds when the offset position lies
\* outside the grid and the cell stored at the offset position when it lies
\* inside, whatever value out_of_bounds was given.  Stated for the square
\* instantiations, where every read of get_surrounding is inside the array.
C2_BoundarySubstitution ==
    (Invoked /\ HEIGHT = WIDTH) =>
        \A i \in 1..8 :
            LET ix == SlotIndex(handed.x, handed.y)[i]
            IN  IF ValidCoord(ix[1], ix[2])
                THEN handed.others[i] = pre[ix[1]][ix[2]]
                ELSE handed.others[i] = out_of_bounds

\* C3: Neighbour ordering matches direct indexed lookups.  For every interior
\* position (x, y) the neighbour set handed to f is, in order, get(x-1, y-1),
\* get(x, y-1), get(x+1, y-1), get(x-1, y), get(x+1, y), get(x-1, y+1),
\* get(x, y+1), get(x+1, y+1) of the grid before the step.
C3_NeighbourOrdering ==
    (/\ Invoked
     /\ handed.x \in 1..(WIDTH - 2)
     /\ handed.y \in 1..(HEIGHT - 2)) =>
        \A i \in 1..8 :
            LET ix == SlotIndex(handed.x, handed.y)[i]
            IN  /\ IndexOk(ix[1], ix[2])
                /\ handed.others[i] = get(pre, ix[1], ix[2])

\* C4: Coordinate agreement between play and the accessors.  The current cell
\* handed to f with the coordinates (x, y) is get(x, y) of the grid before the
\* step, and after the step get(x, y) is the value f returned for (x, y).
\* Stated for the square instantiations, where get accepts every coordinate
\* pair that play hands to f.
C4_CoordinateAgreement ==
    /\ (Invoked /\ HEIGHT = WIDTH) =>
        /\ IndexOk(handed.x, handed.y)
        /\ handed.cell = get(pre, handed.x, handed.y)
    /\ (Published /\ HEIGHT = WIDTH) =>
        \A k \in 1..Len(returned) :
            /\ IndexOk(returned[k][1], returned[k][2])
            /\ get(cells, returned[k][1], returned[k][2]) = returned[k][3]

AccessorOps == {"get", "get_ref", "get_mut", "set"}

\* C5: Accessor domain.  In every instantiation get, get_ref, get_mut and set
\* complete for every (x, y) with 0 <= x < WIDTH and 0 <= y < HEIGHT and fault
\* for every other (x, y), and a faulting call leaves the grid as it was.
C5_AccessorDomain ==
    [][(calls' = calls + 1 /\ ret'.op \in AccessorOps) =>
          /\ ret'.fault <=> ~ValidCoord(ret'.x, ret'.y)
          /\ ret'.fault => (cells' = cells /\ out_of_bounds' = out_of_bounds)]_vars

\* C6: Set/get round trip with frame.  For every valid (x, y) and every cell
\* c, after set(x, y, c) get(x, y) returns c, every other valid position
\* returns what it returned before, and out_of_bounds is unchanged.
C6_SetGetRoundTrip ==
    [][(calls' = calls + 1 /\ ret'.op = "set" /\ ValidCoord(ret'.x, ret'.y)) =>
          /\ ~ret'.fault
          /\ IndexOk(ret'.x, ret'.y)
          /\ get(cells', ret'.x, ret'.y) = ret'.val
          /\ \A x \in 0..(WIDTH - 1), y \in 0..(HEIGHT - 1) :
                <<x, y>> # <<ret'.x, ret'.y>> =>
                    /\ IndexOk(x, y)
                    /\ get(cells', x, y) = get(cells, x, y)
          /\ out_of_bounds' = out_of_bounds]_vars

\* n consecutive calls of play(f) on the cells c: the outcomes [cells, rule].
RECURSIVE play_times(_, _, _)
play_times(c, f, n) ==
    IF n = 0
    THEN {[cells |-> c, rule |-> f]}
    ELSE UNION {play(o.cells, o.rule) : o \in play_times(c, f, n - 1)}

\* The call op has returned normally.
Returned(op) == pc = "idle" /\ call.op = op /\ ret.op = op /\ ~ret.fault

\* play_for has just completed a generation.
GenerationDone == pc = "loop" /\ call.op = "play_for" /\ call.gen >= 1

\* C7: play_for(n, f) runs exactly n generations, each of them an outcome of
\* one call of play(f) on the grid and the closure the generation before left,
\* so that it leaves the grid, and the closure f with what it captured, in a
\* state that n consecutive calls of play(f) from the same grid reach; where
\* no read leaves the array that state is compared with the n calls directly.
\* play_for(0, f) does not invoke f and leaves the grid as it was.  A single
\* play(f) is one such call.
C7_PlayForIsRepeatedPlay ==
    /\ Returned("play_for") =>
        /\ call.gen = call.n
        /\ ~outside =>
              [cells |-> cells, rule |-> rule]
                  \in play_times(call.cells0, call.rule0, call.n)
        /\ call.n = 0 =>
            /\ cells = call.cells0
            /\ rule = call.rule0
            /\ ~handed.valid
            /\ returned = <<>>
    /\ Returned("play") =>
        [cells |-> cells, rule |-> rule] \in play(call.cells0, call.rule0)
    /\ GenerationDone =>
        /\ call.gen <= call.n
        /\ [cells |-> cells, rule |-> rule] \in play(pre, call.rule1)
    /\ (pc = "play" /\ pos = 0) => (cells = pre /\ rule = call.rule1)
    /\ (pc = "play" /\ call.gen = 0) =>
            (pre = call.cells0 /\ call.rule1 = call.rule0)

\* C7 witness: play_for(2, f) has returned for the stateful closure, and has
\* changed the grid.
C7_Witness ==
    /\ Returned("play_for")
    /\ call.n = 2
    /\ rule.kind = "count"
    /\ cells # call.cells0

\* C8: No partial publication on a rule fault.  When f faults, self.cells is
\* the last generation published: the cells before the call for play, the
\* cells after the generations that completed for play_for; never a mix.
C8_NoPartialPublication ==
    (ret.fault /\ ret.op \in {"play", "play_for"}) =>
        /\ cells = pre
        /\ call.op = "play" => cells = call.cells0
        /\ call.op = "play_for" =>
              cells \in {o.cells : o \in play_times(call.cells0, call.rule0, call.gen)}

\* C8 witness: f faults in a later generation of a play_for, after it has
\* returned new values in that generation (the stateful closure has been
\* invoked an odd number of times since the generation began).
C8_Witness ==
    /\ ret.fault
    /\ call.op = "play_for"
    /\ call.gen >= 1
    /\ cells # call.cells0
    /\ rule.kind = "count"
    /\ rule.n # (call.gen * Area) % 2

\* The Life has just been built by from_iter.
Built == pc = "idle" /\ ret.op = "from_iter"

\* The source has an entry at index c of its row r (both counted from 0).
HasEntry(r, c) == r < Len(source) /\ c < Len(source[r + 1])

\* C9: Construction truncation and zero-fill.  from_iter never writes outside
\* the cell array; the entry at index c of source row r is at get(c, r) when
\* r < WIDTH and c < HEIGHT and is ignored otherwise; every position with no
\* source entry is dead; and out_of_bounds is dead.
C9_ConstructionTruncation ==
    Built =>
        /\ ~outside
        /\ DOMAIN cells = Outer
        /\ \A r \in Outer : DOMAIN cells[r] = Inner
        /\ \A r \in Outer, c \in Inner :
              /\ IndexOk(c, r)
              /\ get(cells, c, r) = IF HasEntry(r, c)
                                    THEN Into(source[r + 1][c + 1])
                                    ELSE Cell(0, 0, 0)
        /\ out_of_bounds = Cell(0, 0, 0)

\* C9 witness: a ragged source with more rows than the grid takes, a row
\* longer than the grid takes and a row that leaves positions unfilled.
C9_Witness ==
    /\ Built
    /\ Len(source) > WIDTH
    /\ \E r \in Outer : HasEntry(r, 0) /\ Len(source[r + 1]) > HEIGHT
    /\ \E r \in Outer : r < Len(source) /\ Len(source[r + 1]) < HEIGHT
    /\ \E r \in Outer : cells[r][0] # Cell(0, 0, 0)

\* The grids of the example, as Life::from builds them from rows of booleans.
PatternCells(rows) ==
    from_iter([r \in 1..Len(rows) |->
                  [c \in 1..Len(rows[r]) |-> [t |-> "bool", v |-> rows[r][c]]]]).cells

CornersAndCentre ==
    PatternCells(<< <<TRUE, FALSE, TRUE>>, <<FALSE, TRUE, FALSE>>, <<TRUE, FALSE, TRUE>> >>)

EdgeMiddles ==
    PatternCells(<< <<FALSE, TRUE, FALSE>>, <<TRUE, FALSE, TRUE>>, <<FALSE, TRUE, FALSE>> >>)

\* The call in progress or just ended works on a 3 x 3 Life with out_of_bounds
\* dead under Conway's rule, and has published at least one generation.
ExampleRun ==
    /\ HEIGHT = 3
    /\ WIDTH = 3
    /\ out_of_bounds = dead
    /\ call.op \in {"play", "play_for"}
    /\ call.rule0.kind = "life"
    /\ pc # "play"
    /\ call.gen >= 1

\* C10: Classic Life example.  From alive,dead,alive / dead,alive,dead /
\* alive,dead,alive one play under the standard rule yields dead,alive,dead /
\* alive,dead,alive / dead,alive,dead, and that grid is what every further
\* play (the later generations of play_for) yields again.
C10_ClassicLifeExample ==
    (ExampleRun /\ call.cells0 \in {CornersAndCentre, EdgeMiddles}) =>
        cells = EdgeMiddles

\* C10 witness: play_for(2, rule) of the example has returned.
C10_Witness ==
    /\ ExampleRun
    /\ call.cells0 = CornersAndCentre
    /\ Returned("play_for")
    /\ call.n = 2
    /\ call.gen = 2
    /\ cells = EdgeMiddles

\* C10 witness of the single play.
C10_WitnessPlay ==
    /\ ExampleRun
    /\ call.cells0 = CornersAndCentre
    /\ Returned("play")

\* The grid c holds a 2 x 2 block of alive cells and dead cells elsewhere.
IsBlock(c) ==
    \E i \in 0..(WIDTH - 2), j \in 0..(HEIGHT - 2) :
        \A a \in Outer, b \in Inner :
            c[a][b] = IF a \in {i, i + 1} /\ b \in {j, j + 1} THEN alive ELSE dead

\* The call in progress or just ended runs Conway's rule on a grid with
\* WIDTH >= 2 and HEIGHT >= 2 that held a block, out_of_bounds dead.
BlockRun ==
    /\ WIDTH >= 2
    /\ HEIGHT >= 2
    /\ out_of_bounds = dead
    /\ call.op \in {"play", "play_for"}
    /\ call.rule0.kind = "life"
    /\ IsBlock(call.cells0)

\* C11: Still life stability.  On every grid with WIDTH >= 2 and HEIGHT >= 2,
\* square or not, with out_of_bounds dead, a 2 x 2 block of alive cells among
\* dead cells is unchanged after every generation played with the standard
\* rule, and no play faults or reads outside the grid.
C11_StillLifeStability ==
    BlockRun =>
        /\ ~outside
        /\ ~ret.fault
        /\ pc # "play" => cells = call.cells0

\* C12: Identity rule.  From the call of play(f) or play_for(n, f) with the
\* rule f that returns its first argument, the current cell, and for as long
\* as that call is the latest one, every cell of the grid is the cell it was
\* when the call was made and out_of_bounds does not change, whatever the
\* grid holds and whatever its dimensions.
C12_IdentityRule ==
    [][(call'.op \in {"play", "play_for"} /\ call'.rule0.kind = "same") =>
          /\ cells' = call'.cells0
          /\ out_of_bounds' = out_of_bounds]_vars

\* C12 witness: play_for(2, f) with the identity rule has returned on a grid
\* that holds a cell that is not dead.
C12_Witness ==
    /\ Returned("play_for")
    /\ call.rule0.kind = "same"
    /\ call.n = 2
    /\ call.gen = 2
    /\ Len(returned) = Area
    /\ \E a \in Outer, b \in Inner : cells[a][b] = red
    /\ \E a \in Outer, b \in Inner : cells[a][b] = dead

(***************************************************************************)
(* Cell on its own: a value is converted into a Cell and asked is_alive.   *)
(***************************************************************************)
\* The values of a channel in the model.
Bytes == (0..MaxChannel) \cup {255}

\* No Life value is involved.
NoLife ==
    /\ HEIGHT = 1
    /\ WIDTH = 1
    /\ cells = NoGrid
    /\ out_of_bounds = NoGrid
    /\ proto = NoGrid
    /\ pos = 0
    /\ rule = NoRule
    /\ call = NoCall
    /\ returned = <<>>
    /\ pre = NoGrid
    /\ calls = 0
    /\ outside = FALSE
    /\ done = {}

\* The value at hand: a bool, a u8, a byte triple, or a Cell of one of the
\* constructors.
InitCell ==
    /\ \/ \E v \in BOOLEAN : source = [t |-> "bool", v |-> v]
       \/ \E v \in Bytes : source = [t |-> "u8", v |-> v]
       \/ \E v \in Bytes \X Bytes \X Bytes : source = [t |-> "rgb", v |-> v]
       \/ \E v \in {alive, dead, black, red, CellDefault} :
              source = [t |-> "cell", v |-> v]
    /\ pc = "value"
    /\ ret = NoRet
    /\ handed = NoHanded
    /\ NoLife

\* Cell::from(value), or the constructor's own result.
CellFrom ==
    /\ pc = "value"
    /\ pc' = "cell"
    /\ ret' = [op |-> "from", cell |-> Into(source), alive |-> FALSE]
    /\ UNCHANGED <<HEIGHT, WIDTH, done, cells, out_of_bounds, proto, pos, rule, call,
                   handed, returned, pre, calls, source, outside>>

\* cell.is_alive()
IsAlive ==
    /\ pc = "cell"
    /\ pc' = "asked"
    /\ ret' = [op |-> "is_alive", cell |-> ret.cell, alive |-> is_alive(ret.cell)]
    /\ UNCHANGED <<HEIGHT, WIDTH, done, cells, out_of_bounds, proto, pos, rule, call,
                   handed, returned, pre, calls, source, outside>>

NextCell == CellFrom \/ IsAlive

SpecCell == InitCell /\ [][NextCell]_vars

\* C13: is_alive(cell) is true iff at least one of the channels r, g, b is
\* not zero; the cell built from the boolean b has is_alive equal to b; and
\* dead(), black() and the default cell, which are one cell, are the only
\* cells that are not alive.
C13_IsAlive ==
    pc = "asked" =>
        /\ ret.alive <=> (ret.cell.r > 0 \/ ret.cell.g > 0 \/ ret.cell.b > 0)
        /\ source.t = "bool" => ret.alive = source.v
        /\ ret.cell \in {dead, black, CellDefault} => ~ret.alive
        /\ ~ret.alive => (ret.cell = dead /\ ret.cell = black /\ ret.cell = CellDefault)

\* C13 witness: a cell with the green channel alone not zero has been asked.
C13_Witness ==
    /\ pc = "asked"
    /\ ret.cell.r = 0
    /\ ret.cell.g > 0
    /\ ret.cell.b = 0
    /\ ret.alive

\* C13 witness of the boolean false.
C13_WitnessFalse ==
    /\ pc = "asked"
    /\ source.t = "bool"
    /\ ~source.v
    /\ ~ret.alive

\* C14: In-bounds neighbour reads.  For every instantiation, WIDTH # HEIGHT
\* included, and every position (x, y) that play visits, each unchecked read
\* of the neighbour computation uses an outer index < WIDTH and an inner index
\* < HEIGHT; the three bottom slots are read only when y + 1 < HEIGHT.
C14_InBoundsNeighbourReads ==
    Invoked =>
        /\ ~outside
        /\ \A i \in 1..8 :
              LET ix == SlotIndex(handed.x, handed.y)[i]
              IN  SlotRead(handed.x, handed.y)[i] =>
                    /\ ix[1] >= 0 /\ ix[1] < WIDTH
                    /\ ix[2] >= 0 /\ ix[2] < HEIGHT
                    /\ i \in 6..8 => handed.y + 1 < HEIGHT

(***************************************************************************)
(* One generation with the positions evaluated in any order: the body of   *)
(* play's loops, as the code has it, run once for each position, in an     *)
(* order that is not fixed.  Workers that each evaluate positions of their  *)
(* own and write the slots of those positions interleave into such orders. *)
(***************************************************************************)
\* The rules that are pure functions of (cell, neighbours, x, y).
PureRules == {"same", "alive", "life"}

\* let mut proto = self.cells, and no position evaluated yet.
PlayAny(kind) ==
    /\ CanCall
    /\ rule' = NewRule(kind)
    /\ call' = [op |-> "play_any", n |-> 1, gen |-> 0, cells0 |-> cells,
                rule0 |-> rule', rule1 |-> rule']
    /\ pc' = "any"
    /\ proto' = cells
    /\ pre' = cells
    /\ done' = {}
    /\ handed' = NoHanded
    /\ returned' = <<>>
    /\ ret' = NoRet
    /\ calls' = calls + 1
    /\ outside' = FALSE
    /\ UNCHANGED <<HEIGHT, WIDTH, cells, out_of_bounds, pos, source>>

\* The body of the loops at a position p that has not been evaluated.
InvokeAny(p, ub) ==
    /\ pc = "any"
    /\ p \in (0..(Area - 1)) \ done
    /\ LET x      == PosX(p)
           y      == PosY(p)
           cell   == PlayCell(PlaySource(cells, proto), x, y)
           others == get_surrounding(PlaySource(cells, proto), x, y, ub)
           out    == RuleApply(rule, cell, others, x, y)
           st     == PlayStore(cells, proto, x, y, out.result)
       IN  /\ cells' = st.cells
           /\ proto' = st.proto
           /\ rule' = out.rule
           /\ outside' = (outside \/ ReadsOutside(x, y))
    /\ done' = done \cup {p}
    /\ UNCHANGED <<HEIGHT, WIDTH, out_of_bounds, pc, pos, call, handed, returned,
                   pre, ret, calls, source>>

\* self.cells = proto, once every position has been evaluated.
PublishAny ==
    /\ pc = "any"
    /\ done = 0..(Area - 1)
    /\ cells' = proto
    /\ proto' = NoGrid
    /\ done' = {}
    /\ call' = [call EXCEPT !.gen = call.gen + 1]
    /\ pc' = "idle"
    /\ ret' = [NoRet EXCEPT !.op = "play_any"]
    /\ UNCHANGED <<HEIGHT, WIDTH, out_of_bounds, pos, rule, handed, returned, pre,
                   calls, source, outside>>

NextAny ==
    \/ \E x \in Coord, y \in Coord, c \in Palette : Set(x, y, c)
    \/ \E kind \in PureRules : PlayAny(kind)
    \/ \E p \in 0..(Area - 1) : \E ub \in UbValues(PosX(p), PosY(p)) : InvokeAny(p, ub)
    \/ PublishAny

SpecAny == Init /\ [][NextAny]_vars

\* C15: Order independence.  For a rule that is a pure function of (current
\* cell, neighbour set, x, y), whatever the order in which the positions of
\* one generation are evaluated, self.cells is the old generation until the
\* publication, an evaluation writes no slot but its own, and the grid
\* published is the grid the sequential play publishes (where reads leave the
\* array, C14, a grid the sequential play can publish).
C15_OrderIndependence ==
    /\ pc = "any" =>
          /\ cells = pre
          /\ \A p \in (0..(Area - 1)) \ done : proto[PosX(p)][PosY(p)] = pre[PosX(p)][PosY(p)]
    /\ (pc = "idle" /\ ret.op = "play_any") =>
          LET sequential == play(call.cells0, call.rule0)
          IN  /\ [cells |-> cells, rule |-> rule] \in sequential
              /\ ~outside => sequential = {[cells |-> cells, rule |-> rule]}

\* C15 witness: the last position of the code's order has been evaluated
\* before the first, under Conway's rule, and has a new cell in its slot.
C15_Witness ==
    /\ pc = "any"
    /\ call.rule0.kind = "life"
    /\ (Area - 1) \in done
    /\ 0 \notin done
    /\ proto[PosX(Area - 1)][PosY(Area - 1)] # pre[PosX(Area - 1)][PosY(Area - 1)]

\* C15 witness of the publication: a generation evaluated in some order has
\* been published and has changed the grid.
C15_WitnessPublished ==
    /\ pc = "idle"
    /\ ret.op = "play_any"
    /\ call.rule0.kind = "life"
    /\ cells # call.cells0

\* The coordinate pairs f has been invoked with in the current play.
InvokedAt == {<<returned[k][1], returned[k][2]>> : k \in 1..Len(returned)}

\* C16: Invocation coverage.  One play invokes the rule exactly WIDTH * HEIGHT
\* times, once for each (x, y) with 0 <= x < WIDTH and 0 <= y < HEIGHT and for
\* no other pair; play_for(n, rule) invokes it exactly n * WIDTH * HEIGHT
\* times (seen in the parity the counting closure keeps), and a generation has
\* all its invocations before the next one begins.
C16_InvocationCoverage ==
    /\ \A k \in 1..Len(returned) : ValidCoord(returned[k][1], returned[k][2])
    /\ Cardinality(InvokedAt) = Len(returned)
    /\ Returned("play") =>
          /\ Len(returned) = WIDTH * HEIGHT
          /\ InvokedAt = (0..(WIDTH - 1)) \X (0..(HEIGHT - 1))
          /\ rule.kind = "count" => rule.n = (WIDTH * HEIGHT) % 2
    /\ Returned("play_for") =>
          /\ call.gen = call.n
          /\ call.n >= 1 =>
                /\ Len(returned) = WIDTH * HEIGHT
                /\ InvokedAt = (0..(WIDTH - 1)) \X (0..(HEIGHT - 1))
          /\ call.n = 0 => returned = <<>>
          /\ rule.kind = "count" => rule.n = (call.n * WIDTH * HEIGHT) % 2
    /\ pc = "play" => call.gen < call.n
    /\ (pc = "loop" /\ call.gen >= 1) =>
          /\ Len(returned) = WIDTH * HEIGHT
          /\ rule.kind = "count" => rule.n = (call.gen * WIDTH * HEIGHT) % 2

\* C16 witness: play_for(2, f) with the counting closure has returned on a
\* grid that is not square and has an odd number of cells.
C16_Witness ==
    /\ Returned("play_for")
    /\ call.n = 2
    /\ rule.kind = "count"
    /\ WIDTH # HEIGHT
    /\ (WIDTH * HEIGHT) % 2 = 1
    /\ Len(returned) = WIDTH * HEIGHT

\* C16 witness of the single play.
C16_WitnessPlay ==
    /\ Returned("play")
    /\ rule.kind = "count"
    /\ WIDTH * HEIGHT >= 4
    /\ Len(returned) = WIDTH * HEIGHT

\* The source has HEIGHT rows of WIDTH entries each.
RowsOfHeight ==
    /\ Len(source) = HEIGHT
    /\ \A r \in 1..Len(source) : Len(source[r]) = WIDTH

\* C17: Construction from a source of HEIGHT rows with WIDTH entries each, as
\* the documented Life::<3, 2> built from three rows of two values, stores
\* every source entry in the grid, so that the grid has as many alive cells
\* as the source has alive entries.
C17_ConstructionKeepsEntries ==
    (Built /\ RowsOfHeight) =>
        /\ \A r \in 1..HEIGHT, c \in 1..WIDTH :
              is_alive(Into(source[r][c])) =>
                  \E a \in Outer, b \in Inner : cells[a][b] = Into(source[r][c])
        /\ Cardinality({ab \in Outer \X Inner : is_alive(cells[ab[1]][ab[2]])})
             = Cardinality({rc \in (1..HEIGHT) \X (1..WIDTH) :
                               is_alive(Into(source[rc[1]][rc[2]]))})

(***************************************************************************)
(* A neighbour set [Cell; 8] on its own: its alive count is taken, the set *)
(* is rearranged, and the count is taken again.                            *)
(***************************************************************************)
\* The cells of the neighbour sets of the model.
NeighbourCells == {dead, red, Cell(0, 1, 0)}

InitNeighbors ==
    /\ \E others \in [1..8 -> NeighbourCells] :
          handed = [NoHanded EXCEPT !.others = others]
    /\ pc = "set"
    /\ ret = NoRet
    /\ source = <<>>
    /\ NoLife

\* others.alive()
Alive ==
    /\ pc \in {"set", "swapped"}
    /\ pc' = "counted"
    /\ ret' = [NoRet EXCEPT !.op = "alive", !.val = CellNeighborsAlive(handed.others)]
    /\ calls' = IF calls < MaxCalls THEN calls + 1 ELSE calls
    /\ UNCHANGED <<HEIGHT, WIDTH, done, cells, out_of_bounds, proto, pos, rule, call,
                   handed, returned, pre, source, outside>>

\* The caller exchanges the cells i and i + 1 of the set.
Swap(i) ==
    /\ pc = "counted"
    /\ pc' = "swapped"
    /\ handed' = [handed EXCEPT !.others = [handed.others EXCEPT
                       ![i] = handed.others[i + 1], ![i + 1] = handed.others[i]]]
    /\ UNCHANGED <<HEIGHT, WIDTH, done, cells, out_of_bounds, proto, pos, rule, call,
                   returned, pre, ret, calls, source, outside>>

NextNeighbors == Alive \/ \E i \in 1..7 : Swap(i)

SpecNeighbors == InitNeighbors /\ [][NextNeighbors]_vars

\* C18: the alive count of a neighbour set is the number of its 8 cells that
\* have at least one channel that is not zero, it is between 0 and 8, and it
\* is the same however the cells of the set are ordered (every order is
\* reached by exchanges of adjacent cells).
C18_AliveCount ==
    [][pc' = "counted" =>
          /\ ret'.val = Cardinality({i \in 1..8 :
                            handed'.others[i].r + handed'.others[i].g
                                + handed'.others[i].b > 0})
          /\ ret'.val \in 0..8
          /\ pc = "swapped" => ret'.val = ret.val]_vars

\* C18 witness: the count has been taken again after an exchange of two
\* different cells, in a set with alive and dead cells.
C18_Witness ==
    /\ pc = "counted"
    /\ calls >= 2
    /\ ret.val \in 1..7
    /\ is_alive(handed.others[8])
    /\ ~is_alive(handed.others[1])
    /\ handed.others[2] = red

\* The step is the return of the accessor op.
Called(op) == calls' = calls + 1 /\ ret'.op = op

\* The step is the publication that ends a generation.
Publishes == pc = "play" /\ pos = WIDTH * HEIGHT /\ pc' # "play" /\ ~ret'.fault

\* C19: Frame of the update operations.  out_of_bounds is dead until the
\* caller assigns it and changes only by the caller's assignments, to the
\* value assigned, whatever play, play_for, set and get calls are made; get,
\* get_ref and the evaluation of a position, neighbour computation included,
\* change no cell; only set and the publication at the end of a generation
\* change cells.
C19_FrameOfUpdates ==
    /\ out_of_bounds = dead
    /\ [][/\ out_of_bounds' # out_of_bounds =>
                (Called("out_of_bounds") /\ out_of_bounds' = ret'.val)
          /\ Called("out_of_bounds") => out_of_bounds' = ret'.val
          /\ (Called("get") \/ Called("get_ref")) => cells' = cells
          /\ (pc = "play" /\ ~Publishes) => cells' = cells
          /\ cells' # cells => (Called("set") \/ Publishes)]_vars

\* C19 witness: the caller assigned out_of_bounds, and a play made after that
\* has published a grid that differs from the one before it.
C19_Witness ==
    /\ Returned("play")
    /\ out_of_bounds = red
    /\ cells # call.cells0

====
